---- MODULE Spec2Model ----
(***************************************************************************)
(* ZenohRpcClient::invoke_method (src/src/rpc.rs) as a state machine.      *)
(*                                                                         *)
(* One invocation is a straight-line async function with two suspension    *)
(* points: `getbuilder.res().await` (line 98) and                          *)
(* `replies.recv_async().await` (line 109).  Every other statement is an   *)
(* action of the invocation itself; the transport (query acceptance,       *)
(* responders, the query timeout, closing of the reply channel) is the     *)
(* environment.  Time is a per-invocation count of milliseconds spent at   *)
(* a suspension point.                                                     *)
(***************************************************************************)
EXTENDS Naturals, Sequences, FiniteSets, TLC

\* ------------------------------------------------------------------ bounds

\* largest time-to-live (ms) a caller passes in CallOptions
MaxTTL == 2
\* longest time (ms) the transport may keep `res().await` suspended
MaxSendDelay == 1
\* most replies the responders produce for one query
MaxReplies == 1

\* ------------------------------------------------------------ value domains

Calls == {1, 2}

None == [some |-> FALSE]
Some(x) == [some |-> TRUE, val |-> x]

UPAYLOAD_FORMAT_UNSPECIFIED == "UPAYLOAD_FORMAT_UNSPECIFIED"
UPAYLOAD_FORMAT_TEXT == "UPAYLOAD_FORMAT_TEXT"
UPAYLOAD_FORMAT_PROTOBUF == "UPAYLOAD_FORMAT_PROTOBUF"
\* the known values of the UPayloadFormat enum that the model uses
Formats == {UPAYLOAD_FORMAT_UNSPECIFIED, UPAYLOAD_FORMAT_TEXT, UPAYLOAD_FORMAT_PROTOBUF}
\* a wire value of the enum field that is no known UPayloadFormat
UnknownFormat == "UPAYLOAD_FORMAT_99"

UPRIORITY_UNSPECIFIED == "UPRIORITY_UNSPECIFIED"
UMESSAGE_TYPE_REQUEST == "UMESSAGE_TYPE_REQUEST"
UMESSAGE_TYPE_RESPONSE == "UMESSAGE_TYPE_RESPONSE"
INTERNAL == "INTERNAL"
BestMatching == "BestMatching"

Bytes == {"hello", "world"}
Methods == {"up://remote/m1", "up://remote/m2"}

\* UPayload::new(data, format)
UPayload(data, format) == [data |-> data, format |-> format]

\* ------------------------------------------------ inputs of invoke_method

\* identities a caller may put into CallOptions (0 is the nil UUID)
SuppliedIds == {101}
TTLs == 1..MaxTTL

CallOptionsSet ==
  { [ttl |-> t, message_id |-> m, priority |-> p, token |-> k] :
      t \in TTLs,
      m \in {None} \cup {Some(i) : i \in SuppliedIds},
      p \in {None, Some("UPRIORITY_CS4")},
      k \in {None, Some("token")} }

Payloads ==
  { None,
    Some(UPayload("hello", UPAYLOAD_FORMAT_TEXT)),
    Some(UPayload("world", UPAYLOAD_FORMAT_PROTOBUF)) }

\* the reduced inputs of the concurrent specification
ConcCallOptionsSet ==
  { o \in CallOptionsSet : o.ttl = 1 /\ o.priority = None /\ o.token = None }
ConcPayloads == {None}

\* the reduced inputs of the fair specification: every ttl, no optional field
FairCallOptionsSet ==
  { o \in CallOptionsSet : o.message_id = None /\ o.priority = None /\ o.token = None }

\* ------------------------------------------------------------------ state

VARIABLES
  pc,             \* where each invocation is in invoke_method
  method,         \* argument `method`
  call_options,   \* argument `call_options`
  payload,        \* argument `payload`
  payload_data,   \* local `payload_data`
  payload_format, \* local `payload_format`
  attributes,     \* local `attributes`
  zenoh_key,      \* local `zenoh_key`
  attachment,     \* local `attachment`
  getbuilder,     \* local `getbuilder`, as handed to the session
  reply,          \* local `reply`
  result,         \* the value invoke_method returned
  uuidCount,      \* identities UUID::build has generated so far
  sendCalls,      \* transport: calls of `session.get(..).res()` per invocation
  queries,        \* transport: the queries it accepted, per invocation
  chan,           \* transport: the reply channel of each invocation's query
  chanState,      \* transport: "open", "final" (closed by the responder side) or "timeout"
  responded,      \* transport: replies the responders produced per query
  dropped,        \* transport: replies that reached a query whose receiver is gone
  recvCalls,      \* calls of `replies.recv_async()` per invocation
  sendWait,       \* ms an invocation spent suspended in `res().await`
  elapsed,        \* ms since an invocation's query was issued, while it awaits the reply
  steps           \* the statements each invocation has executed, in order

inputVars == <<method, call_options, payload>>
localVars == <<payload_data, payload_format, attributes, zenoh_key, attachment, getbuilder, reply>>
transportVars == <<sendCalls, queries, chan, chanState, responded, dropped>>
clockVars == <<sendWait, elapsed>>
vars == <<pc, inputVars, localVars, result, uuidCount, transportVars, recvCalls, clockVars, steps>>

\* ---------------------------------------------------------------- results

NoResult == [tag |-> "Pending"]

\* Ok(Some(UPayload))
OkSome(p) == [tag |-> "Ok", value |-> Some(p)]

\* Err(ServiceInvocationError::Internal(msg))
ErrInternal(msg) == [tag |-> "Internal", msg |-> msg]

\* Err(ServiceInvocationError::RpcError(UStatus { code, message: Some(msg), .. }))
ErrRpcError(code, msg) == [tag |-> "RpcError", status |-> [code |-> code, message |-> Some(msg)]]

\* ------------------------------------------------- collaborators of rpc.rs

\* LocalUriProvider::get_source_uri of the injected provider
SourceUri == "up://local/client"

\* UPTransportZenoh::to_zenoh_key_string(src, Some(dst)): a pure function of the pair
ToZenohKeyString(src, dst) == <<"up", src, dst>>

UATTRIBUTE_VERSION == "v1"

\* UPTransportZenoh::uattributes_to_attachment, when it succeeds
UAttributesToAttachment(attrs) == [version |-> UATTRIBUTE_VERSION, body |-> Some(attrs)]

\* UPTransportZenoh::attachment_to_uattributes: Ok(attributes) or Err
AttachmentToUAttributes(a) ==
  IF a.version = UATTRIBUTE_VERSION /\ a.body.some
    THEN [ok |-> TRUE, val |-> a.body.val]
    ELSE [ok |-> FALSE]

\* attachments no decoder accepts: a wrong version, an unparsable body
BadAttachments == { [version |-> "v0", body |-> None], [version |-> UATTRIBUTE_VERSION, body |-> None] }

\* UUID::build: the n-th identity generated (never the nil UUID 0)
UUIDBuild(n) == n + 1

\* EnumOrUnknown::enum_value_or_default
EnumValueOrDefault(v) == IF v \in Formats THEN v ELSE UPAYLOAD_FORMAT_UNSPECIFIED

\* ------------------------------------------- the pure parts of invoke_method

\* lines 53-55: the format of the payload, UNSPECIFIED without one
PayloadFormatOf(p) == IF p.some THEN p.val.format ELSE UPAYLOAD_FORMAT_UNSPECIFIED

\* lines 52, 56: the bytes of the payload, None without one
PayloadDataOf(p) == IF p.some THEN Some(p.val.data) ELSE None

\* line 64 as `unwrap_or_default()`: the nil UUID when the caller gave none
MessageId_Default(opts, n) == IF opts.message_id.some THEN opts.message_id.val ELSE 0

\* line 64: call_options.message_id().unwrap_or_else(UUID::build)
MessageId(opts, n) == IF opts.message_id.some THEN opts.message_id.val ELSE UUIDBuild(n)

\* lines 65-68: call_options.priority().unwrap_or(UPRIORITY_UNSPECIFIED)
Priority(opts) == IF opts.priority.some THEN opts.priority.val ELSE UPRIORITY_UNSPECIFIED

\* lines 62-75 with source and sink exchanged
BuildAttributes_Swapped(m, opts, fmt, src, n) ==
  [ type_          |-> UMESSAGE_TYPE_REQUEST,
    id             |-> Some(MessageId(opts, n)),
    priority       |-> Priority(opts),
    source         |-> Some(m),
    sink           |-> Some(src),
    ttl            |-> Some(opts.ttl),
    token          |-> opts.token,
    payload_format |-> fmt,
    reqid          |-> None,
    commstatus     |-> None ]

\* lines 62-75: the UAttributes of the request; the fields not named there keep
\* their defaults (reqid, commstatus)
BuildAttributes(m, opts, fmt, src, n) ==
  [ type_          |-> UMESSAGE_TYPE_REQUEST,
    id             |-> Some(MessageId(opts, n)),
    priority       |-> Priority(opts),
    source         |-> Some(src),
    sink           |-> Some(m),
    ttl            |-> Some(opts.ttl),
    token          |-> opts.token,
    payload_format |-> fmt,
    reqid          |-> None,
    commstatus     |-> None ]

\* line 97 with Duration::from_micros: the ttl taken as microseconds
QueryTimeout_Micros(opts) == opts.ttl \div 1000

\* line 97 with Duration::from_secs: the ttl taken as seconds
QueryTimeout_Seconds(opts) == opts.ttl * 1000

\* line 97: Duration::from_millis(u64::from(call_options.ttl())), in ms
QueryTimeout(opts) == opts.ttl

\* lines 90-97 without `with_value`: the payload never becomes the body
GetBuilder_NoValue(key, data, att, opts) ==
  [ key        |-> key,
    value      |-> None,
    attachment |-> Some(att),
    target     |-> BestMatching,
    timeout    |-> QueryTimeout(opts) ]

\* lines 90-97: the query handed to the session
GetBuilder(key, data, att, opts) ==
  [ key        |-> key,
    value      |-> data,
    attachment |-> Some(att),
    target     |-> BestMatching,
    timeout    |-> QueryTimeout(opts) ]

\* format!("{prefix}{e:?}")
Format(prefix, e) == <<prefix, e>>

\* lines 84-86 returning the error variant of the transport failures
EncodeErrorResult_AsRpcError ==
  ErrRpcError(INTERNAL, <<"Unable to transform UAttributes to user attachment in Zenoh">>)

\* lines 84-86
EncodeErrorResult ==
  ErrInternal(<<"Unable to transform UAttributes to user attachment in Zenoh">>)

\* lines 99-105 returning the variant of the local failures
SendErrorResult_AsInternal == ErrInternal(<<"Error while sending Zenoh query">>)

\* lines 99-105
SendErrorResult == ErrRpcError(INTERNAL, <<"Error while sending Zenoh query">>)

\* lines 110-116 with another status code
RecvErrorResult_Unavailable == ErrRpcError("UNAVAILABLE", <<"Error while receiving Zenoh reply">>)

\* lines 110-116
RecvErrorResult == ErrRpcError(INTERNAL, <<"Error while receiving Zenoh reply">>)

\* lines 120-126 ignoring the reply's attachment
ReplyPayloadFormat_Default(sample) == UPAYLOAD_FORMAT_UNSPECIFIED

\* lines 120-123, 126: the payload format of a valid reply sample
ReplyPayloadFormat(sample) ==
  IF ~sample.attachment.some
    THEN UPAYLOAD_FORMAT_UNSPECIFIED
    ELSE LET attr == AttachmentToUAttributes(sample.attachment.val)
         IN  IF attr.ok THEN EnumValueOrDefault(attr.val.payload_format)
                        ELSE UPAYLOAD_FORMAT_UNSPECIFIED

\* lines 119-128 with a check of the reply attributes: a reply that decodes to
\* something other than a RESPONSE with status OK is an error
SampleOkResult_CheckStatus(sample) ==
  IF /\ sample.attachment.some
     /\ AttachmentToUAttributes(sample.attachment.val).ok
     /\ \/ AttachmentToUAttributes(sample.attachment.val).val.type_ # UMESSAGE_TYPE_RESPONSE
        \/ AttachmentToUAttributes(sample.attachment.val).val.commstatus # Some("OK")
    THEN ErrRpcError(INTERNAL, <<"Unexpected reply attributes">>)
    ELSE OkSome(UPayload(sample.payload, ReplyPayloadFormat(sample)))

\* lines 119-128 with `?` on the decode instead of `.ok()`: a reply whose
\* attachment is missing or does not decode is an error
SampleOkResult_Strict(sample) ==
  IF sample.attachment.some /\ AttachmentToUAttributes(sample.attachment.val).ok
    THEN OkSome(UPayload(sample.payload,
                         EnumValueOrDefault(AttachmentToUAttributes(sample.attachment.val).val.payload_format)))
    ELSE ErrRpcError(INTERNAL, <<"Unable to decode the reply attachment">>)

\* lines 119-128
SampleOkResult(sample) == OkSome(UPayload(sample.payload, ReplyPayloadFormat(sample)))

\* lines 129-137 with a message that leaves the cause out
SampleErrResult_NoCause(e) == ErrRpcError(INTERNAL, <<"Error while parsing Zenoh reply">>)

\* lines 129-137
SampleErrResult(e) == ErrRpcError(INTERNAL, Format("Error while parsing Zenoh reply: ", e))

\* lines 118-138: match reply.sample
InterpretReply(r) ==
  IF r.sample.ok THEN SampleOkResult(r.sample) ELSE SampleErrResult(r.sample.err)

\* ------------------------------------------------- what responders may send

OkSample(bytes, att) == [ok |-> TRUE, payload |-> bytes, attachment |-> att, err |-> ""]
ErrSample(e) == [ok |-> FALSE, payload |-> "", attachment |-> None, err |-> e]

\* the attributes a responder encodes into the attachment of its reply to `req`
ReplyAttributes(req, fmt) ==
  [ type_          |-> UMESSAGE_TYPE_RESPONSE,
    id             |-> Some(900),
    priority       |-> req.priority,
    source         |-> req.sink,
    sink           |-> req.source,
    ttl            |-> None,
    token          |-> None,
    payload_format |-> fmt,
    reqid          |-> req.id,
    commstatus     |-> Some("OK") ]

\* attributes in a reply that answer nothing of `req`: another message kind,
\* another request id, the addresses not swapped, a failure status
ForeignAttributes(req, fmt) ==
  [ type_          |-> UMESSAGE_TYPE_REQUEST,
    id             |-> Some(901),
    priority       |-> "UPRIORITY_CS6",
    source         |-> req.source,
    sink           |-> Some("up://remote/other"),
    ttl            |-> None,
    token          |-> None,
    payload_format |-> fmt,
    reqid          |-> Some(902),
    commstatus     |-> Some("PERMISSION_DENIED") ]

\* the attachments of a reply that decode to nothing: none, or a bad one
UndecodableAttachments == {None} \cup {Some(a) : a \in BadAttachments}

\* the attachments of a reply that answers `req`, one for each declared format
ReplyAttachments(req, fmts) ==
  {Some(UAttributesToAttachment(ReplyAttributes(req, f))) : f \in fmts}

\* the payload formats a responder declares: known ones, and a value this build
\* of the enum does not know
ReplyFormats == {UPAYLOAD_FORMAT_TEXT, UPAYLOAD_FORMAT_PROTOBUF, UnknownFormat}

\* the payload of a sample that carries no bytes
EmptyBytes == ""

\* the replies a responder may produce for the query `qid` with request attributes
\* `req`: samples with bytes and an attachment that does not decode or one that
\* does, for every declared format, samples without bytes, a sample
\* whose attributes answer another message, and a sample error
Replies(qid, req) ==
  { [qid |-> qid, sample |-> s] :
      s \in {OkSample("hello", a) : a \in UndecodableAttachments}
            \cup {OkSample("world", a) : a \in ReplyAttachments(req, ReplyFormats)}
            \cup {OkSample(EmptyBytes, a) :
                    a \in {None, Some(UAttributesToAttachment(ReplyAttributes(req, UPAYLOAD_FORMAT_UNSPECIFIED)))}}
            \cup {OkSample("world", Some(UAttributesToAttachment(ForeignAttributes(req, UPAYLOAD_FORMAT_TEXT))))}
            \cup {ErrSample("malformed")} }

ConcReplies(qid, req) ==
  { [qid |-> qid, sample |-> s] :
      s \in { OkSample("world", Some(UAttributesToAttachment(ReplyAttributes(req, UPAYLOAD_FORMAT_PROTOBUF)))),
              ErrSample("malformed") } }

\* the inputs and replies of a specification: all of them ("all"), or the
\* reduced ones of the concurrent ("conc") and of the fair ("fair") specification
MethodsFor(profile) == IF profile = "all" THEN Methods ELSE {"up://remote/m1"}
CallOptionsFor(profile) ==
  CASE profile = "all" -> CallOptionsSet
    [] profile = "conc" -> ConcCallOptionsSet
    [] OTHER -> FairCallOptionsSet
PayloadsFor(profile) == IF profile = "conc" THEN ConcPayloads ELSE Payloads
RepliesFor(profile, qid, req) ==
  IF profile = "all" THEN Replies(qid, req) ELSE ConcReplies(qid, req)

\* the error reply the session itself produces when the query times out
TimeoutReply(qid) == [qid |-> qid, sample |-> ErrSample("Timeout")]

\* ------------------------------------------------------------------- Init

Init ==
  /\ pc = [c \in Calls |-> "idle"]
  /\ method = [c \in Calls |-> ""]
  /\ call_options = [c \in Calls |-> None]
  /\ payload = [c \in Calls |-> None]
  /\ payload_data = [c \in Calls |-> None]
  /\ payload_format = [c \in Calls |-> UPAYLOAD_FORMAT_UNSPECIFIED]
  /\ attributes = [c \in Calls |-> None]
  /\ zenoh_key = [c \in Calls |-> None]
  /\ attachment = [c \in Calls |-> None]
  /\ getbuilder = [c \in Calls |-> None]
  /\ reply = [c \in Calls |-> None]
  /\ result = [c \in Calls |-> NoResult]
  /\ uuidCount = 0
  /\ sendCalls = [c \in Calls |-> 0]
  /\ queries = [c \in Calls |-> <<>>]
  /\ chan = [c \in Calls |-> <<>>]
  /\ chanState = [c \in Calls |-> "open"]
  /\ responded = [c \in Calls |-> 0]
  /\ dropped = [c \in Calls |-> 0]
  /\ recvCalls = [c \in Calls |-> 0]
  /\ sendWait = [c \in Calls |-> 0]
  /\ elapsed = [c \in Calls |-> 0]
  /\ steps = [c \in Calls |-> <<>>]

\* --------------------------------------------------- steps of invoke_method

\* lines 62-98 with the encode of the attachment moved before the key
Statements_EncodeBeforeKey == <<"assemble", "encode", "resolve_key", "send">>

\* lines 62-98: the statements between the entry and the first await, in
\* program order
Statements == <<"assemble", "resolve_key", "encode", "send">>

\* the values of pc between those statements, the last one inside res().await
PcLabels == <<"invoked", "built", "keyed", "encoded", "sending">>

Position(stmt) == CHOOSE i \in DOMAIN Statements : Statements[i] = stmt
PcBefore(stmt) == PcLabels[Position(stmt)]
PcAfter(stmt) == PcLabels[Position(stmt) + 1]

\* lines 45-60: the call, the split of the payload, the source address
Invoke(c, profile) ==
  /\ pc[c] = "idle"
  /\ \E m \in MethodsFor(profile), o \in CallOptionsFor(profile), p \in PayloadsFor(profile) :
       /\ method' = [method EXCEPT ![c] = m]
       /\ call_options' = [call_options EXCEPT ![c] = Some(o)]
       /\ payload' = [payload EXCEPT ![c] = p]
       /\ payload_data' = [payload_data EXCEPT ![c] = PayloadDataOf(p)]
       /\ payload_format' = [payload_format EXCEPT ![c] = PayloadFormatOf(p)]
  /\ pc' = [pc EXCEPT ![c] = "invoked"]
  /\ steps' = [steps EXCEPT ![c] = Append(@, "invoke")]
  /\ UNCHANGED <<attributes, zenoh_key, attachment, getbuilder, reply, result, uuidCount,
                 transportVars, recvCalls, clockVars>>

\* lines 62-75: the request attributes; UUID::build runs only without a message id
Assemble(c) ==
  /\ pc[c] = PcBefore("assemble")
  /\ attributes' = [attributes EXCEPT ![c] =
       Some(BuildAttributes(method[c], call_options[c].val, payload_format[c], SourceUri, uuidCount))]
  /\ uuidCount' = IF call_options[c].val.message_id.some THEN uuidCount ELSE uuidCount + 1
  /\ pc' = [pc EXCEPT ![c] = PcAfter("assemble")]
  /\ steps' = [steps EXCEPT ![c] = Append(@, "assemble")]
  /\ UNCHANGED <<inputVars, payload_data, payload_format, zenoh_key, attachment, getbuilder,
                 reply, result, transportVars, recvCalls, clockVars>>

\* lines 77-80: the key of (source, method)
ResolveKey(c) ==
  /\ pc[c] = PcBefore("resolve_key")
  /\ zenoh_key' = [zenoh_key EXCEPT ![c] = Some(ToZenohKeyString(SourceUri, method[c]))]
  /\ pc' = [pc EXCEPT ![c] = PcAfter("resolve_key")]
  /\ steps' = [steps EXCEPT ![c] = Append(@, "resolve_key")]
  /\ UNCHANGED <<inputVars, payload_data, payload_format, attributes, attachment, getbuilder,
                 reply, result, uuidCount, transportVars, recvCalls, clockVars>>

\* line 83: uattributes_to_attachment returns Ok(attachment)
EncodeOk(c) ==
  /\ pc[c] = PcBefore("encode")
  /\ attachment' = [attachment EXCEPT ![c] = Some(UAttributesToAttachment(attributes[c].val))]
  /\ pc' = [pc EXCEPT ![c] = PcAfter("encode")]
  /\ steps' = [steps EXCEPT ![c] = Append(@, "encode")]
  /\ UNCHANGED <<inputVars, payload_data, payload_format, attributes, zenoh_key, getbuilder,
                 reply, result, uuidCount, transportVars, recvCalls, clockVars>>

\* the return of one invocation with result r
Return(c, r) ==
  /\ result' = [result EXCEPT ![c] = r]
  /\ pc' = [pc EXCEPT ![c] = "done"]

\* lines 83-87: uattributes_to_attachment returns Err; return Internal
EncodeFail(c) ==
  /\ pc[c] = PcBefore("encode")
  /\ Return(c, EncodeErrorResult)
  /\ steps' = [steps EXCEPT ![c] = @ \o <<"encode", "return">>]
  /\ UNCHANGED <<inputVars, localVars, uuidCount, transportVars, recvCalls, clockVars>>

\* lines 89-98: build the query and call res(); the invocation is suspended in
\* the transport until the query is accepted or refused
IssueQuery(c) ==
  /\ pc[c] = PcBefore("send")
  /\ getbuilder' = [getbuilder EXCEPT ![c] =
       Some(GetBuilder(zenoh_key[c].val, payload_data[c], attachment[c].val, call_options[c].val))]
  /\ sendCalls' = [sendCalls EXCEPT ![c] = @ + 1]
  /\ pc' = [pc EXCEPT ![c] = PcAfter("send")]
  /\ steps' = [steps EXCEPT ![c] = Append(@, "send")]
  /\ UNCHANGED <<inputVars, payload_data, payload_format, attributes, zenoh_key, attachment,
                 reply, result, uuidCount, queries, chan, chanState, responded, dropped,
                 recvCalls, clockVars>>

\* line 98 yields Ok(replies); line 109 calls recv_async and suspends
SendOk(c) ==
  /\ pc[c] = "sending"
  /\ queries' = [queries EXCEPT ![c] = Append(@, getbuilder[c].val)]
  /\ recvCalls' = [recvCalls EXCEPT ![c] = @ + 1]
  /\ pc' = [pc EXCEPT ![c] = "awaiting"]
  /\ steps' = [steps EXCEPT ![c] = Append(@, "await")]
  /\ UNCHANGED <<inputVars, localVars, result, uuidCount, sendCalls, chan, chanState,
                 responded, dropped, clockVars>>

\* lines 98-106 with a retry: on Err the query is built and sent again
SendFail_Retry(c) ==
  /\ pc[c] = "sending"
  /\ pc' = [pc EXCEPT ![c] = PcBefore("send")]
  /\ UNCHANGED <<inputVars, localVars, result, uuidCount, transportVars, recvCalls,
                 clockVars, steps>>

\* lines 98-106: res() yields Err; return RpcError
SendFail(c) ==
  /\ pc[c] = "sending"
  /\ Return(c, SendErrorResult)
  /\ steps' = [steps EXCEPT ![c] = Append(@, "return")]
  /\ UNCHANGED <<inputVars, localVars, uuidCount, transportVars, recvCalls, clockVars>>

\* lines 109-118 over a reply channel shared by the session: recv_async yields
\* the first item of any invocation's channel
RecvReply_AnyChannel(c) ==
  /\ pc[c] = "awaiting"
  /\ \E d \in Calls :
       /\ chan[d] # <<>>
       /\ reply' = [reply EXCEPT ![c] = Some(Head(chan[d]))]
       /\ Return(c, InterpretReply(Head(chan[d])))
       /\ chan' = [chan EXCEPT ![d] = <<>>]
       /\ dropped' = [dropped EXCEPT ![d] = @ + Len(chan[d]) - 1]
  /\ steps' = [steps EXCEPT ![c] = @ \o <<"interpret", "return">>]
  /\ UNCHANGED <<inputVars, payload_data, payload_format, attributes, zenoh_key, attachment,
                 getbuilder, uuidCount, sendCalls, queries, chanState, responded,
                 recvCalls, clockVars>>

\* lines 109, 118-138: recv_async yields the first item of the channel, which
\* is interpreted and returned; the receiver is dropped with what it still holds
RecvReply(c) ==
  /\ pc[c] = "awaiting"
  /\ chan[c] # <<>>
  /\ reply' = [reply EXCEPT ![c] = Some(Head(chan[c]))]
  /\ Return(c, InterpretReply(Head(chan[c])))
  /\ chan' = [chan EXCEPT ![c] = <<>>]
  /\ dropped' = [dropped EXCEPT ![c] = @ + Len(chan[c]) - 1]
  /\ steps' = [steps EXCEPT ![c] = @ \o <<"interpret", "return">>]
  /\ UNCHANGED <<inputVars, payload_data, payload_format, attributes, zenoh_key, attachment,
                 getbuilder, uuidCount, sendCalls, queries, chanState, responded,
                 recvCalls, clockVars>>

\* lines 109-117 with the Err arm returning an empty success
RecvFail_Ok(c) ==
  /\ pc[c] = "awaiting"
  /\ chan[c] = <<>>
  /\ chanState[c] # "open"
  /\ Return(c, [tag |-> "Ok", value |-> None])
  /\ steps' = [steps EXCEPT ![c] = Append(@, "return")]
  /\ UNCHANGED <<inputVars, localVars, uuidCount, transportVars, recvCalls, clockVars>>

\* lines 109-117 as a loop that calls recv_async again on Err
RecvFail_Retry(c) ==
  /\ pc[c] = "awaiting"
  /\ chan[c] = <<>>
  /\ chanState[c] # "open"
  /\ UNCHANGED vars

\* lines 109-117: recv_async yields Err (the channel is closed and empty)
RecvFail(c) ==
  /\ pc[c] = "awaiting"
  /\ chan[c] = <<>>
  /\ chanState[c] # "open"
  /\ Return(c, RecvErrorResult)
  /\ steps' = [steps EXCEPT ![c] = Append(@, "return")]
  /\ UNCHANGED <<inputVars, localVars, uuidCount, transportVars, recvCalls, clockVars>>

\* ------------------------------------------------------------ the transport

\* a millisecond passes while res() is suspended
TickSend(c) ==
  /\ pc[c] = "sending"
  /\ sendWait[c] < MaxSendDelay
  /\ sendWait' = [sendWait EXCEPT ![c] = @ + 1]
  /\ UNCHANGED <<pc, inputVars, localVars, result, uuidCount, transportVars, recvCalls,
                 elapsed, steps>>

\* a millisecond passes while recv_async is suspended on an open, empty channel;
\* the query's timeout (line 97) bounds the wait
TickAwait(c) ==
  /\ pc[c] = "awaiting"
  /\ chan[c] = <<>>
  /\ chanState[c] = "open"
  /\ elapsed[c] < queries[c][1].timeout
  /\ elapsed' = [elapsed EXCEPT ![c] = @ + 1]
  /\ UNCHANGED <<pc, inputVars, localVars, result, uuidCount, transportVars, recvCalls,
                 sendWait, steps>>

\* a responder replies to the query of invocation c while c awaits
Respond(c, profile) ==
  /\ pc[c] = "awaiting"
  /\ chanState[c] = "open"
  /\ responded[c] < MaxReplies
  /\ \E r \in RepliesFor(profile, c, attributes[c].val) :
       chan' = [chan EXCEPT ![c] = Append(@, r)]
  /\ responded' = [responded EXCEPT ![c] = @ + 1]
  /\ UNCHANGED <<pc, inputVars, localVars, result, uuidCount, sendCalls, queries, chanState,
                 dropped, recvCalls, clockVars, steps>>

\* a reply that reaches the query of invocation c after c has returned is
\* interpreted and replaces the result
LateReply_Delivered(c, profile) ==
  /\ pc[c] = "done"
  /\ queries[c] # <<>>
  /\ responded[c] < MaxReplies
  /\ responded' = [responded EXCEPT ![c] = @ + 1]
  /\ \E r \in RepliesFor(profile, c, attributes[c].val) :
       /\ reply' = [reply EXCEPT ![c] = Some(r)]
       /\ result' = [result EXCEPT ![c] = InterpretReply(r)]
  /\ UNCHANGED <<pc, inputVars, payload_data, payload_format, attributes, zenoh_key,
                 attachment, getbuilder, uuidCount, sendCalls, queries, chan, chanState,
                 dropped, recvCalls, clockVars, steps>>

\* a reply reaches the query of invocation c after c has returned: nobody receives it
LateReply(c, profile) ==
  /\ pc[c] = "done"
  /\ queries[c] # <<>>
  /\ responded[c] < MaxReplies
  /\ responded' = [responded EXCEPT ![c] = @ + 1]
  /\ dropped' = [dropped EXCEPT ![c] = @ + 1]
  /\ UNCHANGED <<pc, inputVars, localVars, result, uuidCount, sendCalls, queries, chan,
                 chanState, recvCalls, clockVars, steps>>

\* the responder side ends the query: the channel closes with what it holds
Finalise(c) ==
  /\ pc[c] = "awaiting"
  /\ chanState[c] = "open"
  /\ chanState' = [chanState EXCEPT ![c] = "final"]
  /\ UNCHANGED <<pc, inputVars, localVars, result, uuidCount, sendCalls, queries, chan,
                 responded, dropped, recvCalls, clockVars, steps>>

\* the query's timeout has elapsed: the session closes the channel, either after
\* putting its own error reply into it or without an item
Timeout(c) ==
  /\ pc[c] = "awaiting"
  /\ chanState[c] = "open"
  /\ elapsed[c] >= queries[c][1].timeout
  /\ chanState' = [chanState EXCEPT ![c] = "timeout"]
  /\ \/ chan' = [chan EXCEPT ![c] = Append(@, TimeoutReply(c))]
     \/ chan' = chan
  /\ UNCHANGED <<pc, inputVars, localVars, result, uuidCount, sendCalls, queries,
                 responded, dropped, recvCalls, clockVars, steps>>

\* ------------------------------------------------------------ specifications

CallStep(c, profile) ==
  \/ Invoke(c, profile)
  \/ Assemble(c)
  \/ ResolveKey(c)
  \/ EncodeOk(c)
  \/ EncodeFail(c)
  \/ IssueQuery(c)
  \/ SendOk(c)
  \/ SendFail(c)
  \/ RecvReply(c)
  \/ RecvFail(c)
  \/ TickSend(c)
  \/ TickAwait(c)
  \/ Respond(c, profile)
  \/ LateReply(c, profile)
  \/ Finalise(c)
  \/ Timeout(c)

\* the invocation that the single-invocation specifications run
Solo == {CHOOSE c \in Calls : \A d \in Calls : c <= d}

\* one invocation, over all its inputs and all replies
Next == \E c \in Solo : CallStep(c, "all")

Spec == Init /\ [][Next]_vars

\* two invocations in flight at once over the shared session, over reduced inputs
ConcNext == \E c \in Calls : CallStep(c, "conc")

ConcSpec == Init /\ [][ConcNext]_vars

\* the invocation's own statements run when they can (the executor polls a ready
\* task), the transport answers res() one way or the other, time passes while
\* the invocation waits, and the query's timeout fires
Fairness ==
  \A c \in Solo :
    /\ WF_vars(Assemble(c))
    /\ WF_vars(ResolveKey(c))
    /\ WF_vars(EncodeOk(c) \/ EncodeFail(c))
    /\ WF_vars(IssueQuery(c))
    /\ WF_vars(SendOk(c) \/ SendFail(c))
    /\ WF_vars(TickAwait(c))
    /\ WF_vars(Timeout(c))
    /\ WF_vars(RecvReply(c))
    /\ WF_vars(RecvFail(c))

\* one invocation over every ttl, under fairness
FairNext == \E c \in Solo : CallStep(c, "fair")

FairSpec == Init /\ [][FairNext]_vars /\ Fairness

\* ------------------------------------------------------------------ claims

\* Err(RpcError(status)) with code INTERNAL and a message
IsRpcInternal(r) ==
  /\ r.tag = "RpcError"
  /\ r.status.code = INTERNAL
  /\ r.status.message.some

\* the invocation returned without an attachment: the encode step failed
EncodeFailed(c) == pc[c] = "done" /\ ~attachment[c].some

\* the invocation called res() and the transport never accepted the query
SendFailed(c) == pc[c] = "done" /\ sendCalls[c] > 0 /\ queries[c] = <<>>

\* the invocation's query was accepted by the transport
QuerySent(c) == queries[c] # <<>>

\* the invocation returned on a valid sample as the first item of its channel
GotValidSample(c) == pc[c] = "done" /\ reply[c].some /\ reply[c].val.sample.ok

\* C1: when the encode of the request attributes fails, invoke returns the
\* error Internal and the transport sees no send call and no query for that
\* invocation, in this and every later state.
C1_EncodeFailureSendsNothing ==
  \A c \in Calls :
    EncodeFailed(c) =>
      /\ result[c].tag = "Internal"
      /\ sendCalls[c] = 0
      /\ queries[c] = <<>>
      /\ ~getbuilder[c].some

C1_Witness ==
  \E c \in Calls : EncodeFailed(c) /\ attributes[c].some /\ payload[c].some

\* C2: an invocation whose query was sent and whose responder stays silent
\* (no reply produced, the query not ended from the responder side) never
\* waits beyond the time-to-live, and when it has returned it returned
\* RpcError(INTERNAL) with exactly the time-to-live elapsed since the query
\* was issued, not earlier.
C2_SilentResponderTimesOutAtTtl ==
  \A c \in Calls :
    /\ pc[c] = "awaiting" => elapsed[c] <= call_options[c].val.ttl
    /\ (pc[c] = "done" /\ QuerySent(c) /\ responded[c] = 0 /\ chanState[c] # "final") =>
         /\ IsRpcInternal(result[c])
         /\ elapsed[c] = call_options[c].val.ttl

C2_Witness ==
  \E c \in Calls :
    /\ pc[c] = "done" /\ QuerySent(c) /\ responded[c] = 0 /\ chanState[c] = "timeout"
    /\ ~payload[c].some
    /\ call_options[c].val.ttl = MaxTTL
    /\ elapsed[c] = MaxTTL
    /\ IsRpcInternal(result[c])

\* C3: an invocation that received a valid sample whose attachment decodes to
\* attributes declaring a payload format returns Ok(Some((P', F'))) with P' the
\* bytes of the sample and F' the declared format, whatever the request's
\* payload and format were.
C3_ReplyPayloadAndFormatReturned ==
  \A c \in Calls :
    GotValidSample(c) =>
      LET s == reply[c].val.sample
      IN  (s.attachment.some /\ AttachmentToUAttributes(s.attachment.val).ok) =>
            LET f == AttachmentToUAttributes(s.attachment.val).val.payload_format
            IN  f \in Formats => result[c] = OkSome(UPayload(s.payload, f))

\* the request was ("hello", TEXT) and the result is ("world", PROTOBUF)
C3_Witness ==
  \E c \in Calls :
    /\ GotValidSample(c)
    /\ payload[c] = Some(UPayload("hello", UPAYLOAD_FORMAT_TEXT))
    /\ result[c] = OkSome(UPayload("world", UPAYLOAD_FORMAT_PROTOBUF))

\* C4: an invocation that received a valid sample whose attachment is absent
\* or does not decode returns Ok with the sample's bytes and the payload
\* format UNSPECIFIED, never an error.
C4_UndecodableAttachmentStillOk ==
  \A c \in Calls :
    GotValidSample(c) =>
      LET s == reply[c].val.sample
      IN  (~s.attachment.some \/ ~AttachmentToUAttributes(s.attachment.val).ok) =>
            result[c] = OkSome(UPayload(s.payload, UPAYLOAD_FORMAT_UNSPECIFIED))

C4_Witness ==
  \E c \in Calls :
    /\ GotValidSample(c)
    /\ reply[c].val.sample.attachment.some
    /\ ~AttachmentToUAttributes(reply[c].val.sample.attachment.val).ok
    /\ result[c].tag = "Ok"

\* C5: when the attachment was encoded and the transport's send fails, invoke
\* returns RpcError(INTERNAL) with a message, and no reply is awaited or
\* consumed for that invocation.
C5_SendFailureIsRpcInternal ==
  \A c \in Calls :
    SendFailed(c) =>
      /\ attachment[c].some
      /\ IsRpcInternal(result[c])
      /\ recvCalls[c] = 0
      /\ ~reply[c].some

C5_Witness ==
  \E c \in Calls : SendFailed(c) /\ sendWait[c] = MaxSendDelay

\* C6: when the item an invocation received is a sample error, invoke returns
\* RpcError(INTERNAL) whose message embeds the cause the sample carries, and
\* never Ok.
C6_SampleErrorIsRpcInternalWithCause ==
  \A c \in Calls :
    (pc[c] = "done" /\ reply[c].some /\ ~reply[c].val.sample.ok) =>
      /\ IsRpcInternal(result[c])
      /\ \E i \in DOMAIN result[c].status.message.val :
           result[c].status.message.val[i] = reply[c].val.sample.err

C6_Witness ==
  \E c \in Calls :
    /\ pc[c] = "done" /\ reply[c].some
    /\ reply[c].val.sample = ErrSample("malformed")
    /\ IsRpcInternal(result[c])

\* C7: when the query was sent and the reply channel closes without having
\* produced an item, invoke returns RpcError(INTERNAL), whether the channel
\* was closed from the responder side or by the expiry of the timeout.
C7_ClosedChannelIsRpcInternal ==
  \A c \in Calls :
    (pc[c] = "done" /\ QuerySent(c) /\ ~reply[c].some) =>
      /\ chanState[c] \in {"final", "timeout"}
      /\ IsRpcInternal(result[c])
      /\ result[c] = RecvErrorResult

\* the channel was closed from the responder side before the timeout
C7_Witness ==
  \E c \in Calls :
    /\ pc[c] = "done" /\ QuerySent(c) /\ ~reply[c].some
    /\ chanState[c] = "final"
    /\ elapsed[c] < call_options[c].val.ttl

\* the request attributes that the attachment of an accepted query decodes to
SentAttributes(q) == AttachmentToUAttributes(q.attachment.val).val

\* C8: the query of an invocation called without a payload carries no body and
\* its request attributes record the payload format UNSPECIFIED; the query of
\* an invocation called with a payload carries exactly the payload's bytes as
\* body and its attributes record the payload's format.
C8_BodyAndFormatFollowPayload ==
  \A c \in Calls :
    \A i \in DOMAIN queries[c] :
      LET q == queries[c][i]
      IN  /\ ~payload[c].some =>
               /\ q.value = None
               /\ SentAttributes(q).payload_format = UPAYLOAD_FORMAT_UNSPECIFIED
          /\ payload[c].some =>
               /\ q.value = Some(payload[c].val.data)
               /\ SentAttributes(q).payload_format = payload[c].val.format

\* one query without a body has been sent, and so could one with a body
C8_Witness ==
  \E c \in Calls :
    /\ QuerySent(c)
    /\ payload[c] = Some(UPayload("world", UPAYLOAD_FORMAT_PROTOBUF))
    /\ queries[c][1].value = Some("world")

\* the identity in the request attributes of invocation c
IdentityOf(c) == attributes[c].val.id

\* invocation c was called without a message identity and has built its attributes
OmittedIdentity(c) == attributes[c].some /\ ~call_options[c].val.message_id.some

\* C9: request attributes carry the identity of the call options when there is
\* one; otherwise they carry a generated identity that is present and not the
\* nil UUID, and two invocations that both omitted the identity never carry
\* the same one, under every interleaving of their steps.
C9_MessageIdentity ==
  \A c \in Calls :
    attributes[c].some =>
      /\ call_options[c].val.message_id.some =>
           IdentityOf(c) = call_options[c].val.message_id
      /\ OmittedIdentity(c) =>
           /\ IdentityOf(c).some
           /\ IdentityOf(c).val # 0
           /\ \A d \in Calls \ {c} : OmittedIdentity(d) => IdentityOf(d) # IdentityOf(c)

\* two invocations without identity are in flight at once
C9_Witness ==
  \E c, d \in Calls :
    /\ c # d
    /\ OmittedIdentity(c) /\ OmittedIdentity(d)
    /\ pc[c] = "awaiting" /\ pc[d] = "awaiting"

\* the three shapes of a terminal Result
TerminalTags == {"Ok", "Internal", "RpcError"}

\* C10: under fairness of the invocation's own steps, of the transport and of
\* the timeout, every invocation that was called returns; it holds a result
\* exactly when it has returned, the result is a terminal Result (Ok, Internal or
\* RpcError), and once returned neither the state nor the result changes.
C10_EveryInvocationReturnsOnce ==
  /\ \A c \in Solo : (pc[c] = "invoked") ~> (pc[c] = "done" /\ result[c].tag \in TerminalTags)
  /\ [](\A c \in Calls : (pc[c] = "done") <=> (result[c].tag \in TerminalTags))
  /\ [][\A c \in Calls : pc[c] = "done" => (pc'[c] = "done" /\ result'[c] = result[c])]_vars

\* an invocation returned after waiting out a silent responder
C10_Witness ==
  \E c \in Solo :
    /\ pc[c] = "done"
    /\ result[c].tag \in TerminalTags
    /\ chanState[c] = "timeout"
    /\ sendWait[c] = MaxSendDelay

\* the invocation returned because the query's timeout expired: the channel was
\* closed by the timeout and held no reply of a responder
TimedOut(c) ==
  /\ pc[c] = "done"
  /\ chanState[c] = "timeout"
  /\ (~reply[c].some \/ reply[c].val = TimeoutReply(c))

\* C11 as claimed: the whole time an invocation has waited, the suspension in
\* res().await included, never exceeds the time-to-live; the query's timeout is
\* the time-to-live and an expiry yields RpcError(INTERNAL).
C11_TotalWaitWithinTtl ==
  \A c \in Calls :
    call_options[c].some =>
      /\ sendWait[c] + elapsed[c] <= call_options[c].val.ttl
      /\ \A i \in DOMAIN queries[c] : queries[c][i].timeout = call_options[c].val.ttl
      /\ TimedOut(c) => IsRpcInternal(result[c])

\* C11, amended: the time an invocation has waited for the reply, counted from
\* the moment its query was issued, never exceeds the time-to-live (the time
\* suspended in res().await before that is not counted and not bounded by it);
\* the timeout handed to the query is the time-to-live in ms, and an expiry
\* yields RpcError(INTERNAL).
C11_WaitForReplyWithinTtl ==
  \A c \in Calls :
    call_options[c].some =>
      /\ ~QuerySent(c) => elapsed[c] = 0
      /\ elapsed[c] <= call_options[c].val.ttl
      /\ \A i \in DOMAIN queries[c] : queries[c][i].timeout = call_options[c].val.ttl
      /\ TimedOut(c) => (IsRpcInternal(result[c]) /\ elapsed[c] = call_options[c].val.ttl)

\* an invocation that was suspended in res().await and then waited out its ttl
C11_Witness ==
  \E c \in Calls :
    /\ TimedOut(c)
    /\ sendWait[c] = MaxSendDelay
    /\ elapsed[c] = call_options[c].val.ttl
    /\ sendWait[c] + elapsed[c] > call_options[c].val.ttl
    /\ IsRpcInternal(result[c])

\* Ok(None)
OkNone == [tag |-> "Ok", value |-> None]

\* C12: from the reply it received, the reply interpreter produces Some(payload)
\* for a valid sample that carries a payload, None for a valid sample that
\* carries no payload, and an error otherwise.
C12_ReplyInterpreterOutcomes ==
  \A c \in Calls :
    (pc[c] = "done" /\ reply[c].some) =>
      LET s == reply[c].val.sample
      IN  /\ (s.ok /\ s.payload # EmptyBytes) =>
               (result[c].tag = "Ok" /\ result[c].value.some /\ result[c].value.val.data = s.payload)
          /\ (s.ok /\ s.payload = EmptyBytes) => result[c] = OkNone
          /\ ~s.ok => result[c].tag \in {"Internal", "RpcError"}

\* C13: an invocation calls the transport's send at most once, exactly once
\* when it has returned with the attachment encoded and never without it; the
\* transport accepts at most one query of it; it calls recv_async at most once,
\* so that it consumes at most one reply; this holds in every state after a
\* failure too, so no failure is followed by a second query.
C13_OneQueryOneReplyNoRetry ==
  \A c \in Calls :
    /\ sendCalls[c] <= 1
    /\ Len(queries[c]) <= sendCalls[c]
    /\ recvCalls[c] <= Len(queries[c])
    /\ reply[c].some => recvCalls[c] = 1
    /\ (pc[c] = "done" /\ attachment[c].some) => sendCalls[c] = 1
    /\ ~attachment[c].some => sendCalls[c] = 0

\* an invocation failed on the first of two items its channel held: the second
\* item was dropped unread and no second query was sent
C13_Witness ==
  \E c \in Calls :
    /\ pc[c] = "done"
    /\ result[c].tag = "RpcError"
    /\ sendCalls[c] = 1 /\ recvCalls[c] = 1
    /\ reply[c].some
    /\ dropped[c] >= 1

\* C14: with two invocations in flight over the shared session, under every
\* interleaving, every item in an invocation's reply channel was produced for
\* that invocation's own query, the reply an invocation received is one of its
\* own channel, and the result it returned is the interpretation of that reply.
C14_NoCrossDelivery ==
  \A c \in Calls :
    /\ \A i \in DOMAIN chan[c] : chan[c][i].qid = c
    /\ reply[c].some =>
         /\ reply[c].val.qid = c
         /\ reply[c].val \in ConcReplies(c, attributes[c].val) \cup {TimeoutReply(c)}
         /\ result[c] = InterpretReply(reply[c].val)

\* an invocation returned on its own reply while the channel of the other
\* invocation, still waiting, held a different reply
C14_Witness ==
  \E c, d \in Calls :
    /\ c # d
    /\ pc[c] = "done" /\ reply[c].some /\ reply[c].val.sample.ok
    /\ pc[d] = "awaiting" /\ chan[d] # <<>>
    /\ ~chan[d][1].sample.ok

\* the state of invocation c in the per-invocation state machine: Built while
\* the attributes exist and the attachment does not, Encoded once the attachment
\* is encoded, Sent while res() is in progress, AwaitingReply while recv_async
\* is, and after the return Completed on a valid sample, TimedOut when the
\* query's timeout ended the wait, Failed otherwise
State(c) ==
  CASE pc[c] \in {"idle", "invoked"} -> "NotStarted"
    [] pc[c] \in {"built", "keyed"}   -> "Built"
    [] pc[c] = "encoded"              -> "Encoded"
    [] pc[c] = "sending"              -> "Sent"
    [] pc[c] = "awaiting"             -> "AwaitingReply"
    [] OTHER -> IF GotValidSample(c) THEN "Completed"
                ELSE IF TimedOut(c) THEN "TimedOut"
                ELSE "Failed"

TerminalStates == {"Completed", "TimedOut", "Failed"}

\* the moves of the state machine: every failure leaves the straight line for Failed
Transitions ==
  { <<"NotStarted", "Built">>,
    <<"Built", "Encoded">>, <<"Built", "Failed">>,
    <<"Encoded", "Sent">>,
    <<"Sent", "AwaitingReply">>, <<"Sent", "Failed">>,
    <<"AwaitingReply", "Completed">>, <<"AwaitingReply", "TimedOut">>,
    <<"AwaitingReply", "Failed">> }

\* what the caller is told in a terminal state, and that it is told nothing before
Reported(c) ==
  /\ State(c) = "Completed" => result[c].tag = "Ok"
  /\ State(c) \in {"TimedOut", "Failed"} => result[c].tag \in {"Internal", "RpcError"}
  /\ State(c) \notin TerminalStates => result[c] = NoResult

\* C15: an invocation changes state only along Built, Encoded, Sent,
\* AwaitingReply in that order or from one of them into a terminal state (Sent
\* only from Encoded, AwaitingReply only from Sent); a terminal state and the
\* result reported in it never change again; Completed is reported as Ok and
\* TimedOut and Failed as an error.
C15_StateMachine ==
  /\ [](\A c \in Calls : Reported(c))
  /\ [][\A c \in Calls :
          /\ State(c)' # State(c) => <<State(c), State(c)'>> \in Transitions
          /\ State(c) \in TerminalStates => (State(c)' = State(c) /\ result'[c] = result[c])]_vars

\* an invocation went through every state of the line and ended TimedOut, after
\* the transport had taken its time to accept the query
C15_Witness ==
  \E c \in Calls :
    /\ State(c) = "TimedOut"
    /\ steps[c] = <<"invoke", "assemble", "resolve_key", "encode", "send", "await", "return">>
    /\ sendWait[c] = MaxSendDelay
    /\ result[c].tag = "RpcError"

\* C16: the request attributes that the attachment of every accepted query
\* decodes to have the message kind REQUEST, the local address as source and the
\* method as sink, both present, the ttl and the token of the call options, and
\* the priority of the call options or UPRIORITY_UNSPECIFIED when there is none;
\* the query's key is the key of that same (source, sink) pair.
C16_RequestAttributesAndKey ==
  \A c \in Calls :
    \A i \in DOMAIN queries[c] :
      LET q    == queries[c][i]
          a    == SentAttributes(q)
          opts == call_options[c].val
      IN  /\ AttachmentToUAttributes(q.attachment.val).ok
          /\ a.type_ = UMESSAGE_TYPE_REQUEST
          /\ a.source = Some(SourceUri)
          /\ a.sink = Some(method[c])
          /\ a.ttl = Some(opts.ttl)
          /\ a.token = opts.token
          /\ opts.priority.some => a.priority = opts.priority.val
          /\ ~opts.priority.some => a.priority = UPRIORITY_UNSPECIFIED
          /\ q.key = ToZenohKeyString(a.source.val, a.sink.val)

\* a query to the second method was accepted, called with a token, the largest
\* ttl and no priority
C16_Witness ==
  \E c \in Calls :
    /\ QuerySent(c)
    /\ method[c] = "up://remote/m2"
    /\ call_options[c].val.token = Some("token")
    /\ call_options[c].val.ttl = MaxTTL
    /\ ~call_options[c].val.priority.some
    /\ SentAttributes(queries[c][1]).priority = UPRIORITY_UNSPECIFIED

\* a reply reaches the query of invocation c in this step
ReplyArrives(c) == responded'[c] = responded[c] + 1

\* C17: an invocation whose wait the timeout ended without a reply has returned
\* RpcError(INTERNAL) after exactly its time-to-live; from then on it stays
\* returned with that result, calls recv_async no more, and its query stays with
\* the transport as it was sent; a reply that arrives for it afterwards changes
\* neither its result nor the result, the received reply or the reply channel of
\* the other invocation.
C17_TimeoutAbandonsWait ==
  /\ [](\A c \in Calls :
          TimedOut(c) =>
            /\ IsRpcInternal(result[c])
            /\ QuerySent(c)
            /\ elapsed[c] = call_options[c].val.ttl)
  /\ [][\A c \in Calls :
          TimedOut(c) =>
            /\ pc'[c] = "done"
            /\ result'[c] = result[c]
            /\ queries'[c] = queries[c]
            /\ recvCalls'[c] = recvCalls[c]
            /\ ReplyArrives(c) =>
                 \A d \in Calls \ {c} :
                   /\ result'[d] = result[d]
                   /\ reply'[d] = reply[d]
                   /\ chan'[d] = chan[d]]_vars

\* a reply has arrived for an invocation that had timed out, while the other
\* invocation was still waiting for its own
C17_Witness ==
  \E c, d \in Calls :
    /\ c # d
    /\ TimedOut(c)
    /\ responded[c] = 1 /\ dropped[c] >= 1
    /\ IsRpcInternal(result[c])
    /\ pc[d] = "awaiting" /\ chan[d] = <<>>

\* the first position of statement x in the steps of invocation c, 0 if absent
StepIndex(c, x) ==
  IF \E i \in DOMAIN steps[c] : steps[c][i] = x
    THEN CHOOSE i \in DOMAIN steps[c] :
           steps[c][i] = x /\ \A j \in DOMAIN steps[c] : steps[c][j] = x => i <= j
    ELSE 0

IsPrefix(s, t) == Len(s) <= Len(t) /\ s = SubSeq(t, 1, Len(s))

\* the complete runs of one invocation: to the failure of the encode, of the
\* send, of the receive, and to the interpretation of a reply
CompleteRuns ==
  { <<"invoke", "assemble", "resolve_key", "encode", "return">>,
    <<"invoke", "assemble", "resolve_key", "encode", "send", "return">>,
    <<"invoke", "assemble", "resolve_key", "encode", "send", "await", "return">>,
    <<"invoke", "assemble", "resolve_key", "encode", "send", "await", "interpret", "return">> }

\* C18 as stated: the steps of an invocation happen in the order attributes
\* assembled, attachment encoded, key resolved, query sent and reply awaited,
\* reply interpreted, result returned; the key resolver is invoked only after
\* the attachment encode step.
C18_KeyResolvedAfterEncode ==
  \A c \in Calls :
    StepIndex(c, "resolve_key") > 0 =>
      /\ StepIndex(c, "encode") > 0
      /\ StepIndex(c, "encode") < StepIndex(c, "resolve_key")

\* C18: the steps of an invocation happen in the order attributes assembled,
\* key resolved, attachment encoded, query sent and reply awaited, reply
\* interpreted, result returned; the key resolver is invoked before the encode
\* step, so that an invocation whose encode fails has resolved its key.
C18_KeyResolvedBeforeEncode ==
  \A c \in Calls :
    /\ \E run \in CompleteRuns : IsPrefix(steps[c], run)
    /\ pc[c] = "done" => steps[c] \in CompleteRuns
    /\ StepIndex(c, "encode") > 0 =>
         /\ StepIndex(c, "resolve_key") > 0
         /\ StepIndex(c, "resolve_key") < StepIndex(c, "encode")
         /\ zenoh_key[c].some
    /\ zenoh_key[c].some <=> StepIndex(c, "resolve_key") > 0
    /\ (attachment[c].some \/ EncodeFailed(c)) <=> StepIndex(c, "encode") > 0

\* an invocation whose encode failed had resolved its key
C18_Witness ==
  \E c \in Calls :
    /\ EncodeFailed(c)
    /\ zenoh_key[c] = Some(ToZenohKeyString(SourceUri, "up://remote/m2"))
    /\ steps[c] = <<"invoke", "assemble", "resolve_key", "encode", "return">>

\* the attributes that the attachment of a valid sample decodes to, if it does
DecodedReply(s) ==
  IF s.attachment.some /\ AttachmentToUAttributes(s.attachment.val).ok
    THEN Some(AttachmentToUAttributes(s.attachment.val).val)
    ELSE None

\* attributes that declare the payload format f and differ in everything else
AttributesDeclaring(req, f) == {ReplyAttributes(req, f), ForeignAttributes(req, f)}

\* C19: an invocation whose first received item is a valid sample returned
\* Ok(Some(payload)) with the sample's bytes, whatever the attachment decodes
\* to; the result is the same for any other reply attributes that declare the
\* same payload format, whether they answer the request or not, so that only
\* the payload format is taken from them.
C19_ReplyAttributesNotCompared ==
  \A c \in Calls :
    GotValidSample(c) =>
      LET s == reply[c].val.sample
          a == DecodedReply(s)
      IN  /\ result[c].tag = "Ok"
          /\ result[c].value.some
          /\ result[c].value.val.data = s.payload
          /\ result[c].value.val.format \in Formats
          /\ a.some =>
               \A b \in AttributesDeclaring(attributes[c].val, a.val.payload_format) :
                 SampleOkResult(OkSample(s.payload, Some(UAttributesToAttachment(b)))) = result[c]

\* the sample received is a REQUEST with another request id, other addresses and
\* the status PERMISSION_DENIED, and the invocation returned Ok with its bytes
\* and the format it declares
C19_Witness ==
  \E c \in Calls :
    /\ GotValidSample(c)
    /\ DecodedReply(reply[c].val.sample) = Some(ForeignAttributes(attributes[c].val, UPAYLOAD_FORMAT_TEXT))
    /\ result[c] = OkSome(UPayload("world", UPAYLOAD_FORMAT_TEXT))

====
